---- MODULE Spec2Model ----
(***************************************************************************)
(* The direct-policy fiber runtime of bran (src/src/fiber.rs): one thread, *)
(* its Environment (coroutine_stack, running_state, the root fiber) and    *)
(* the fibers spawned on it.  Control is sequential: exactly one piece of  *)
(* code runs at a time, and pc says which one.                             *)
(*                                                                         *)
(*   pc = "user"        user code of the fiber on top of coroutine_stack   *)
(*                      (the host itself when that is the root fiber)      *)
(*   pc = "after_swap"  Handle::resume of the top fiber, just after        *)
(*                      Context::swap returned (fiber.rs:199)              *)
(*   pc = "join_loop"   Handle::join of the top fiber, at the head of its  *)
(*                      loop (fiber.rs:224)                                *)
(*   pc = "init_loop"   coroutine_initialize of the top fiber, at          *)
(*                      loop { yield_now(state) } (fiber.rs:333)           *)
(***************************************************************************)
EXTENDS Integers, Sequences, FiniteSets, TLC

\* Bounds of the model.
MaxFibers == 2      \* fibers spawned on the thread (the root not counted)
MaxSeg == 2         \* yield_now calls one fiber body makes
MaxThreads == 2     \* threads, each with its Environment and stack pool
MaxLive == 2        \* stacks alive at a time, those cached at the start
                    \* not counted
MaxSize == 2        \* stack sizes requested beyond the default size

\* Program constants.
PoolCap == 256      \* stacks one pool caches at most (stack.rs:192)
min_stack == 1      \* Options::default().stack_size, the unit of size

Threads == 1..MaxThreads
\* The sizes spawn_opts and take_stack are called with when the pools are
\* exercised: larger than the default, so that the default-size stacks
\* cached by earlier drops do not qualify.
Sizes == {min_stack + k : k \in 1..MaxSize}

\* The thread whose Environment the fiber operations below run on.
Main == 1

\* The synthetic root fiber of the Environment (fiber.rs:468).
Root == 0

State == {"Normal", "Suspended", "Blocked", "Running", "Finished", "Panicked"}

VARIABLES
    handles,          \* the fibers that exist: Root and every spawned fiber
    state,            \* Fiber.state of each
    coroutine_stack,  \* Environment.coroutine_stack, bottom first
    running_state,    \* Environment.running_state: {} is None, {p} is Some(p)
    pc,               \* which code has control (see above)
    call,             \* per fiber, the resume/join call it is inside
    ctx,              \* per fiber, where its saved_context resumes
    ret,              \* per fiber, coroutine_initialize's local `state`
    \* history variables: what callers observed
    ev,               \* the last event user code observed since control
                      \* last entered a fiber: a call of the API that
                      \* returned or panicked, or an effect of a body
    left,             \* the fiber that switched away in yield_now, the
                      \* fiber whose resume had entered it and the state it
                      \* passed to yield_now, until that resume continues
    entered,          \* per fiber, how many resume calls switched into it
    resumer,          \* per fiber on the chain, the fiber whose resume
                      \* entered it
    seg,              \* per fiber, 1 + the yield_now calls its body has made
    delivered,        \* per fiber, resume calls that returned its payload
    receiver,         \* per fiber, the fibers a resume returned its payload to
    \* stacks (src/src/stack.rs); a Stack is [id, min_size, pool], id the
    \* mapping it owns, pool the Option<StackPool> ({} None, {t} thread t's)
    current_stack_segment,  \* Fiber.current_stack_segment: {} None, {s} Some
    stacks,           \* per thread, InnerPool.stacks of its Environment
    held,             \* per thread, the local `stack` of a spawn_opts in
                      \* progress on it (fiber.rs:363): {} none, {s} the stack
    asked,            \* per thread, opts.stack_size of the spawn_opts in
                      \* progress on it, 0 when there is none
    discarded,        \* history: the stack that the give_stack of the last
                      \* pool operation did not push, and the path it came
                      \* by; {} when there is none
    dropped           \* history: the thread that ran the last Drop for
                      \* Fiber and the id of the stack that fiber owned,
                      \* when the last step was that drop; {} otherwise

\* The variables of the stack pools.
pvars == <<stacks, held, asked, discarded, dropped>>

vars == <<handles, state, coroutine_stack, running_state, pc, call, ctx, ret,
          ev, left, entered, resumer, seg, delivered, receiver,
          current_stack_segment, stacks, held, asked,
          discarded, dropped>>

NoCall == [op |-> "none", target |-> Root]
NoEv == [op |-> "none", caller |-> Root, target |-> Root, res |-> "none",
         payload |-> {}, entered |-> FALSE, arg |-> "none", seg |-> 0,
         during |-> 0]
NoLeft == [fiber |-> Root, by |-> Root, arg |-> "none"]

\* Fiber::current: the top of coroutine_stack.
current == coroutine_stack[Len(coroutine_stack)]

OnChain(f) == \E i \in 1..Len(coroutine_stack) : coroutine_stack[i] = f

\* The Stack values out of the pools: in a fiber, or in the hands of a
\* spawn_opts.
in_fibers == UNION {current_stack_segment[f] : f \in handles}
in_hand == UNION {held[t] : t \in Threads}
taken == in_hand \cup in_fibers

\* The mappings alive: those of the stacks cached in a pool and of the
\* stacks out of the pools.
cached_ids(t) == {stacks[t][i].id : i \in 1..Len(stacks[t])}
mapped == (UNION {cached_ids(t) : t \in Threads}) \cup {s.id : s \in taken}

\* MemoryMap::new in Stack::new (stack.rs:61): a mapping distinct from every
\* mapping alive; an unmapped one may be handed out again.
fresh ==
    LET free == (1..(Cardinality(mapped) + 1)) \ mapped
    IN CHOOSE i \in free : \A j \in free : i <= j

\* Stack::new (stack.rs:56-82).
Stack_new(size) == [id |-> fresh, min_size |-> size, pool |-> {}]

\* A lookup that compares the wrong way round.
position_smaller(v, min_size) ==
    LET q == {i \in 1..Len(v) : v[i].min_size <= min_size}
    IN IF q = {} THEN {} ELSE {CHOOSE i \in q : \A j \in q : i <= j}

\* iter().position(|s| min_size <= s.min_size) (stack.rs:179-180): the first
\* index that qualifies, {} when none does.
position(v, min_size) ==
    LET q == {i \in 1..Len(v) : min_size <= v[i].min_size}
    IN IF q = {} THEN {} ELSE {CHOOSE i \in q : \A j \in q : i <= j}

\* A removal that hands the element out and leaves it in the vector.
swap_remove_kept(v, idx) == v

\* Vec::swap_remove (stack.rs:181): the last element takes the place of the
\* removed one.
swap_remove(v, idx) ==
    [i \in 1..(Len(v) - 1) |-> IF i = idx THEN v[Len(v)] ELSE v[i]]

\* StackPool::take_stack on the pool of thread t (stack.rs:174-186): the
\* stack returned and what the pool holds afterwards.
take_stack(t, min_size) ==
    LET v == stacks[t]
        idx == position(v, min_size)
        found == IF idx = {} THEN Stack_new(min_size)
                 ELSE v[CHOOSE i \in idx : TRUE]
    IN [stack |-> [found EXCEPT !.pool = {t}],
        rest |-> IF idx = {} THEN v
                 ELSE swap_remove(v, CHOOSE i \in idx : TRUE),
        hit |-> idx # {}]

\* A pool that accepts one stack too many.
give_stack_off_by_one(v, stack) ==
    IF Len(v) <= PoolCap THEN Append(v, [stack EXCEPT !.pool = {}]) ELSE v

\* StackPool::give_stack (stack.rs:188-195): what the pool holds afterwards.
\* A stack that is not pushed is dropped with pool None, so it is unmapped.
give_stack(v, stack) ==
    IF Len(v) < PoolCap THEN Append(v, [stack EXCEPT !.pool = {}]) ELSE v

\* Environment::new, the fields other than the stack pool.
EnvInit ==
    /\ handles = {Root}
    /\ state = (Root :> "Running")
    /\ coroutine_stack = <<Root>>
    /\ running_state = {}
    /\ pc = "user"
    /\ call = (Root :> NoCall)
    /\ ctx = (Root :> "body")
    /\ ret = (Root :> "none")
    /\ ev = NoEv
    /\ left = NoLeft
    /\ entered = (Root :> 0)
    /\ resumer = (Root :> Root)
    /\ seg = (Root :> 1)
    /\ delivered = (Root :> 0)
    /\ receiver = (Root :> {})
    /\ current_stack_segment = (Root :> {})
    /\ held = [t \in Threads |-> {}]
    /\ asked = [t \in Threads |-> 0]
    /\ discarded = {}
    /\ dropped = {}

\* Environment::new on every thread, before any fiber operation: the pools
\* are empty (StackPool::new).
Init ==
    /\ EnvInit
    /\ stacks = [t \in Threads |-> <<>>]

\* A spawn that starts the body at once, as if it had resumed the fiber.
spawn_eager ==
    /\ pc = "user"
    /\ Cardinality(handles) <= MaxFibers
    /\ LET n == Cardinality(handles)
           tk == take_stack(Main, min_stack)
       IN
        /\ stacks' = [stacks EXCEPT ![Main] = tk.rest]
        /\ current_stack_segment' = current_stack_segment @@ (n :> {tk.stack})
        /\ UNCHANGED <<asked, discarded, dropped>>
        /\ handles' = handles \cup {n}
        /\ state' = [state EXCEPT ![current] = "Normal"] @@ (n :> "Running")
        /\ coroutine_stack' = Append(coroutine_stack, n)
        /\ call' = call @@ (n :> NoCall)
        /\ ctx' = ctx @@ (n :> "body")
        /\ ret' = ret @@ (n :> "none")
        /\ entered' = entered @@ (n :> 1)
        /\ resumer' = resumer @@ (n :> n)
        /\ seg' = seg @@ (n :> 1)
        /\ delivered' = delivered @@ (n :> 0)
        /\ receiver' = receiver @@ (n :> {})
        /\ ev' = [NoEv EXCEPT !.op = "spawn", !.caller = current,
                              !.target = n, !.res = "Handle"]
    /\ UNCHANGED <<running_state, pc, left, held>>

\* A spawn that creates the fiber in the state of the one that spawns it.
spawn_running ==
    /\ pc = "user"
    /\ Cardinality(handles) <= MaxFibers
    /\ LET n == Cardinality(handles)
           tk == take_stack(Main, min_stack)
       IN
        /\ stacks' = [stacks EXCEPT ![Main] = tk.rest]
        /\ current_stack_segment' = current_stack_segment @@ (n :> {tk.stack})
        /\ UNCHANGED <<asked, discarded, dropped>>
        /\ handles' = handles \cup {n}
        /\ state' = state @@ (n :> "Running")
        /\ call' = call @@ (n :> NoCall)
        /\ ctx' = ctx @@ (n :> "entry")
        /\ ret' = ret @@ (n :> "none")
        /\ entered' = entered @@ (n :> 0)
        /\ resumer' = resumer @@ (n :> n)
        /\ seg' = seg @@ (n :> 1)
        /\ delivered' = delivered @@ (n :> 0)
        /\ receiver' = receiver @@ (n :> {})
        /\ ev' = [NoEv EXCEPT !.op = "spawn", !.caller = current,
                              !.target = n, !.res = "Handle"]
    /\ UNCHANGED <<coroutine_stack, running_state, pc, left, held>>

\* Fiber::spawn / spawn_opts: a new fiber, Suspended, on a stack taken from
\* the thread's pool, its context at the entry of coroutine_initialize.
\* Nothing runs and nothing is pushed.
spawn ==
    /\ pc = "user"
    /\ Cardinality(handles) <= MaxFibers
    /\ LET n == Cardinality(handles)
           tk == take_stack(Main, min_stack)
       IN
        /\ stacks' = [stacks EXCEPT ![Main] = tk.rest]
        /\ current_stack_segment' = current_stack_segment @@ (n :> {tk.stack})
        /\ UNCHANGED <<asked, discarded, dropped>>
        /\ handles' = handles \cup {n}
        /\ state' = state @@ (n :> "Suspended")
        /\ call' = call @@ (n :> NoCall)
        /\ ctx' = ctx @@ (n :> "entry")
        /\ ret' = ret @@ (n :> "none")
        /\ entered' = entered @@ (n :> 0)
        /\ resumer' = resumer @@ (n :> n)
        /\ seg' = seg @@ (n :> 1)
        /\ delivered' = delivered @@ (n :> 0)
        /\ receiver' = receiver @@ (n :> {})
        /\ ev' = [NoEv EXCEPT !.op = "spawn", !.caller = current,
                              !.target = n, !.res = "Handle"]
    /\ UNCHANGED <<coroutine_stack, running_state, pc, left, held>>

\* The frame condition of a call that returns without switching.
NoSwitch == UNCHANGED <<handles, state, coroutine_stack, running_state, pc,
                        call, ctx, ret, left, entered, resumer, seg,
                        delivered, receiver, current_stack_segment, pvars>>

\* A resume without the Panicked arm: a panicked fiber is switched into.
resume_match_no_panicked_arm(s) ==
    CASE s \in {"Finished", "Running"} -> "ok"
      [] s = "Normal" -> "normal"
      [] OTHER -> "switch"

\* A resume whose first arm covers Running only: a finished fiber is
\* switched into.
resume_match_no_finished_arm(s) ==
    CASE s = "Running" -> "ok"
      [] s = "Panicked" -> "panicked"
      [] s = "Normal" -> "normal"
      [] OTHER -> "switch"

\* A resume that treats Panicked like Finished and returns Ok.
resume_match_terminal_ok(s) ==
    CASE s \in {"Finished", "Running", "Panicked"} -> "ok"
      [] s = "Normal" -> "normal"
      [] OTHER -> "switch"

\* A resume that rejects a Finished fiber as it rejects a Panicked one.
resume_match_finished_rejected(s) ==
    CASE s = "Running" -> "ok"
      [] s \in {"Finished", "Panicked"} -> "panicked"
      [] s = "Normal" -> "normal"
      [] OTHER -> "switch"

\* A resume whose first arm covers Finished only: the running fiber is
\* switched into itself.
resume_match_no_running_arm(s) ==
    CASE s = "Finished" -> "ok"
      [] s = "Panicked" -> "panicked"
      [] s = "Normal" -> "normal"
      [] OTHER -> "switch"

\* A resume without the Normal arm: a fiber waiting for its child is
\* switched into.
resume_match_no_normal_arm(s) ==
    CASE s \in {"Finished", "Running"} -> "ok"
      [] s = "Panicked" -> "panicked"
      [] OTHER -> "switch"

\* Handle::resume, the match on self.state() (fiber.rs:178-184).
resume_match(s) ==
    CASE s \in {"Finished", "Running"} -> "ok"
      [] s = "Panicked" -> "panicked"
      [] s = "Normal" -> "normal"
      [] OTHER -> "switch"

\* A resume that leaves its caller Running while the target runs.
set_states_caller_kept(st, from, to) == [st EXCEPT ![to] = "Running"]

\* Handle::resume, "Save state" (fiber.rs:195-196): the target becomes
\* Running, then the caller becomes Normal.
set_states(st, from, to) == [st EXCEPT ![to] = "Running", ![from] = "Normal"]

\* Handle::resume up to and including Context::swap (fiber.rs:186-199), for
\* a call made by `op` ("resume", or "join" through its loop).  Control
\* continues where the target's saved_context points.
swap_in(h, op) ==
    /\ state' = set_states(state, current, h)
    /\ coroutine_stack' = Append(coroutine_stack, h)
    /\ call' = [call EXCEPT ![current] = [op |-> op, target |-> h]]
    /\ ctx' = [ctx EXCEPT ![h] = IF @ = "entry" THEN "body" ELSE @]
    /\ pc' = IF ctx[h] = "loop" THEN "init_loop" ELSE "user"
    /\ entered' = [entered EXCEPT ![h] = IF @ < MaxSeg + 2 THEN @ + 1 ELSE @]
    /\ resumer' = [resumer EXCEPT ![h] = current]
    /\ ev' = NoEv
    /\ UNCHANGED <<handles, running_state, ret, left, seg, delivered,
                   receiver, current_stack_segment, pvars>>

\* Handle::resume called by user code (fiber.rs:177-199).  A panic! of the
\* library unwinds into the caller and is recorded as the call's outcome.
resume(h) ==
    /\ pc = "user"
    /\ h \in handles
    /\ LET m == resume_match(state[h]) IN
        \/ /\ m = "ok"
           /\ ev' = [NoEv EXCEPT !.op = "resume", !.caller = current,
                                 !.target = h, !.res = "Ok"]
           /\ NoSwitch
        \/ /\ m = "panicked"
           /\ ev' = [NoEv EXCEPT !.op = "resume", !.caller = current,
                                 !.target = h, !.res = "PanicResumePanicked"]
           /\ NoSwitch
        \/ /\ m = "normal"
           /\ ev' = [NoEv EXCEPT !.op = "resume", !.caller = current,
                                 !.target = h, !.res = "PanicWaitingChild"]
           /\ NoSwitch
        \/ /\ m = "switch"
           /\ swap_in(h, "resume")

\* A resume that does not restore its caller's state after the swap.
set_running_forgotten(st, from) == st

\* Handle::resume, line 201: back from the swap, the caller is Running.
set_running(st, from) == [st EXCEPT ![from] = "Running"]

\* A resume that reads the slot without emptying it.
take_leaves_payload(rs) == rs

\* Handle::resume, env.running_state.take() (fiber.rs:204): what the slot
\* holds afterwards.
take(rs) == {}

\* Handle::resume after Context::swap returned (fiber.rs:201-207), and the
\* try! of Handle::join when the call came from its loop (fiber.rs:227).
after_swap ==
    /\ pc = "after_swap"
    /\ LET c == call[current]
           res == IF running_state = {} THEN "Ok" ELSE "Err"
           out == [NoEv EXCEPT !.caller = current, !.target = c.target,
                               !.res = res, !.payload = running_state,
                               !.entered = TRUE, !.arg = left.arg]
       IN
        /\ state' = set_running(state, current)
        /\ running_state' = take(running_state)
        /\ delivered' = [f \in handles |->
                           IF f \in running_state /\ delivered[f] < 2
                           THEN delivered[f] + 1 ELSE delivered[f]]
        /\ receiver' = [f \in handles |->
                          IF f \in running_state
                          THEN receiver[f] \cup {current} ELSE receiver[f]]
        /\ \/ /\ c.op = "join" /\ res = "Ok"
              /\ ev' = [out EXCEPT !.op = "resume"]
              /\ pc' = "join_loop"
              /\ call' = call
           \/ /\ c.op = "join" /\ res = "Err"
              /\ ev' = [out EXCEPT !.op = "join"]
              /\ pc' = "user"
              /\ call' = [call EXCEPT ![current] = NoCall]
           \/ /\ c.op # "join"
              /\ ev' = [out EXCEPT !.op = "resume"]
              /\ pc' = "user"
              /\ call' = [call EXCEPT ![current] = NoCall]
    /\ left' = NoLeft
    /\ UNCHANGED <<handles, coroutine_stack, ctx, ret, entered, resumer, seg,
                   current_stack_segment, pvars>>

\* Handle::join called by user code (fiber.rs:223): control is at its loop.
join(h) ==
    /\ pc = "user"
    /\ h \in handles
    /\ call' = [call EXCEPT ![current] = [op |-> "join", target |-> h]]
    /\ pc' = "join_loop"
    /\ UNCHANGED <<handles, state, coroutine_stack, running_state, ctx, ret,
                   ev, left, entered, resumer, seg, delivered, receiver,
                   current_stack_segment, pvars>>

\* A loop that also ends when the handle is Running.
join_break_on_running(s) == s \in {"Finished", "Panicked", "Running"}

\* Handle::join, the arm that leaves the loop (fiber.rs:226).
join_break(s) == s \in {"Finished", "Panicked"}

\* One iteration of the loop of Handle::join (fiber.rs:224-230).
join_loop ==
    /\ pc = "join_loop"
    /\ LET h == call[current].target
           m == resume_match(state[h])
           out == [NoEv EXCEPT !.caller = current, !.target = h]
           return == /\ pc' = "user"
                     /\ call' = [call EXCEPT ![current] = NoCall]
                     /\ UNCHANGED <<handles, state, coroutine_stack,
                                    running_state, ctx, ret, left, entered,
                                    resumer, seg, delivered, receiver,
                                    current_stack_segment, pvars>>
       IN
        \/ /\ join_break(state[h])
           /\ ev' = [out EXCEPT !.op = "join", !.res = "Ok"]
           /\ return
        \/ /\ ~join_break(state[h])
           /\ m = "ok"
           /\ ev' = [out EXCEPT !.op = "resume", !.res = "Ok"]
           /\ NoSwitch
        \/ /\ ~join_break(state[h])
           /\ m \in {"panicked", "normal"}
           /\ ev' = [out EXCEPT !.op = "join", !.res = "PanicWaitingChild"]
           /\ return
        \/ /\ ~join_break(state[h])
           /\ m = "switch"
           /\ swap_in(h, "join")

\* A root test that also holds for a fiber resumed by the root.
is_root_off_by_one(chain) == Len(chain) <= 2

\* Fiber::yield_now, the root test (fiber.rs:384).
is_root(chain) == Len(chain) = 1

\* A yield that returns to the bottom of the chain, not to the resumer.
pop_to_root(chain) == SubSeq(chain, 1, 1)

\* Fiber::yield_now, coroutine_stack.pop() (fiber.rs:390).
pop(chain) == SubSeq(chain, 1, Len(chain) - 1)

\* Fiber::yield_now past its assertion and root test (fiber.rs:389-397): pop
\* the top, give it `s`, swap into the new top, which is inside resume.
switch_out(s) ==
    /\ coroutine_stack' = pop(coroutine_stack)
    /\ state' = [state EXCEPT ![current] = s]
    /\ left' = [fiber |-> current, by |-> resumer[current], arg |-> s]
    /\ resumer' = [resumer EXCEPT ![current] = current]
    /\ pc' = "after_swap"

\* A yield_now that stores the state before it tests for the root.
yield_now_state_first(s) ==
    /\ pc = "user"
    /\ current = Root \/ seg[current] <= MaxSeg
    /\ \/ /\ s = "Running"
          /\ ev' = [NoEv EXCEPT !.op = "yield_now", !.caller = current,
                                !.target = current, !.res = "PanicAssert"]
          /\ NoSwitch
       \/ /\ s # "Running"
          /\ is_root(coroutine_stack)
          /\ ev' = [NoEv EXCEPT !.op = "yield_now", !.caller = current,
                                !.target = current, !.res = "Ok"]
          /\ state' = [state EXCEPT ![current] = s]
          /\ seg' = [seg EXCEPT ![current] = IF current = Root THEN @ ELSE @ + 1]
          /\ UNCHANGED <<handles, coroutine_stack, running_state, pc,
                         call, ctx, ret, left, entered, resumer, delivered,
                         receiver, current_stack_segment, pvars>>
       \/ /\ s # "Running"
          /\ ~is_root(coroutine_stack)
          /\ switch_out(s)
          /\ seg' = [seg EXCEPT ![current] = @ + 1]
          /\ UNCHANGED <<handles, running_state, call, ctx, ret, ev, entered,
                         delivered, receiver, current_stack_segment, pvars>>

\* Fiber::yield_now called by user code (fiber.rs:379-398).
yield_now(s) ==
    /\ pc = "user"
    /\ current = Root \/ seg[current] <= MaxSeg
    /\ \/ /\ s = "Running"
          /\ ev' = [NoEv EXCEPT !.op = "yield_now", !.caller = current,
                                !.target = current, !.res = "PanicAssert"]
          /\ NoSwitch
       \/ /\ s # "Running"
          /\ is_root(coroutine_stack)
          /\ ev' = [NoEv EXCEPT !.op = "yield_now", !.caller = current,
                                !.target = current, !.res = "Ok"]
          /\ seg' = [seg EXCEPT ![current] = IF current = Root THEN @ ELSE @ + 1]
          /\ UNCHANGED <<handles, state, coroutine_stack, running_state, pc,
                         call, ctx, ret, left, entered, resumer, delivered,
                         receiver, current_stack_segment, pvars>>
       \/ /\ s # "Running"
          /\ ~is_root(coroutine_stack)
          /\ switch_out(s)
          /\ seg' = [seg EXCEPT ![current] = @ + 1]
          /\ UNCHANGED <<handles, running_state, call, ctx, ret, ev, entered,
                         delivered, receiver, current_stack_segment, pvars>>

\* Fiber::sched and Fiber::block (fiber.rs:402-410).
sched == yield_now("Suspended")

block == yield_now("Blocked")

\* A coroutine_initialize that ends every body in Finished.
terminal_state_always_finished(r) == "Finished"

\* coroutine_initialize, the match on the result of the body (fiber.rs:304-331).
terminal_state(r) == IF r = "Ok" THEN "Finished" ELSE "Panicked"

\* coroutine_initialize, what it stores in env.running_state (fiber.rs:306, 327).
stored(r, f) == IF r = "Ok" THEN {} ELSE {f}

\* coroutine_initialize once the body has ended (fiber.rs:295-331): r is the
\* result of try(func): "Ok" when the body returned, "Err" when it unwound.
\* The payload is identified by the fiber that raised it.
coroutine_initialize(r) ==
    /\ pc = "user"
    /\ current # Root
    /\ ctx[current] = "body"
    /\ running_state' = stored(r, current)
    /\ ret' = [ret EXCEPT ![current] = terminal_state(r)]
    /\ ctx' = [ctx EXCEPT ![current] = "loop"]
    /\ pc' = "init_loop"
    /\ UNCHANGED <<handles, state, coroutine_stack, call, ev, left, entered,
                   resumer, seg, delivered, receiver, current_stack_segment,
                   pvars>>

\* coroutine_initialize, loop { Fiber::yield_now(state) } (fiber.rs:333-335).
init_loop ==
    /\ pc = "init_loop"
    /\ \/ /\ is_root(coroutine_stack)
          /\ UNCHANGED <<state, coroutine_stack, left, resumer, pc>>
       \/ /\ ~is_root(coroutine_stack)
          /\ switch_out(ret[current])
    /\ UNCHANGED <<handles, running_state, call, ctx, ret, ev, entered, seg,
                   delivered, receiver, current_stack_segment, pvars>>

\* An effect of a fiber body, such as tx.send(n) (tests.rs:40, 44): the
\* event records the body's segment and the resume call during which it ran.
send ==
    /\ pc = "user"
    /\ current # Root
    /\ ev' = [NoEv EXCEPT !.op = "send", !.caller = current,
                          !.target = current, !.res = "Ok",
                          !.seg = seg[current], !.during = entered[current]]
    /\ NoSwitch

Next ==
    \/ spawn
    \/ \E h \in handles : resume(h)
    \/ after_swap
    \/ \E h \in handles : join(h)
    \/ join_loop
    \/ \E s \in State : yield_now(s)
    \/ sched
    \/ block
    \/ \E r \in {"Ok", "Err"} : coroutine_initialize(r)
    \/ init_loop
    \/ send

Spec == Init /\ [][Next]_vars

\* The steps of the library run to their end once entered: a thread that
\* is back from Context::swap, in the loop of join or in the loop of
\* coroutine_initialize goes on (the code is sequential, fiber.rs:201-207,
\* 224-230, 333-335).  A fiber body returns or unwinds when it is given
\* the control often enough: the bodies considered are those that end.
Fairness ==
    /\ WF_vars(after_swap)
    /\ WF_vars(join_loop)
    /\ WF_vars(init_loop)
    /\ SF_vars(\E r \in {"Ok", "Err"} : coroutine_initialize(r))

SpecJoin == Init /\ [][Next]_vars /\ Fairness

----------------------------------------------------------------------------
(***************************************************************************)
(* The stack pools under several threads.  Every thread has its own pool   *)
(* (Environment.stack_pool) behind a mutex; a critical section is one      *)
(* step.  The pools are reached from spawn_opts (take_stack), from the     *)
(* drop of a Fiber (give_stack) and from the drop of a Stack.  Fibers here *)
(* are only created and dropped: a Handle is Send, so any thread may drop  *)
(* it.                                                                     *)
(***************************************************************************)

\* A pool as n spawns of the default size followed by the drop of their
\* handles leave it.
after_drops(n) ==
    [i \in 1..n |-> [id |-> i, min_size |-> min_stack, pool |-> {}]]

\* The pools before the operations below: the pool of thread Main empty,
\* or one short of full.
InitPool ==
    /\ EnvInit
    /\ \E n \in {0, PoolCap - 1} :
          stacks = [t \in Threads |-> IF t = Main THEN after_drops(n) ELSE <<>>]

Restrict(f, S) == [x \in S |-> f[x]]

\* The stacks mapped since the start, which are of the sizes requested
\* here: how many are cached in the pool of thread t, and how many there
\* are.
live_cached(t) ==
    Cardinality({i \in 1..Len(stacks[t]) : stacks[t][i].min_size > min_stack})

RECURSIVE sum_live(_)
sum_live(T) ==
    IF T = {} THEN 0
    ELSE LET t == CHOOSE x \in T : TRUE IN live_cached(t) + sum_live(T \ {t})

live == Cardinality(taken) + sum_live(Threads)

\* Fiber::spawn_opts on thread t with Options.stack_size = size, up to its
\* call of take_stack (fiber.rs:362-363).
spawn_opts(t, size) ==
    /\ held[t] = {}
    /\ LET tk == take_stack(t, size) IN
        /\ tk.hit \/ live < MaxLive
        /\ stacks' = [stacks EXCEPT ![t] = tk.rest]
        /\ held' = [held EXCEPT ![t] = {tk.stack}]
        /\ asked' = [asked EXCEPT ![t] = size]
    /\ discarded' = {}
    /\ dropped' = {}
    /\ UNCHANGED <<handles, state, coroutine_stack, running_state, pc, call,
                   ctx, ret, ev, left, entered, resumer, seg, delivered,
                   receiver, current_stack_segment>>

\* Fiber::spawn_opts on thread t, Fiber::new with the stack it took
\* (fiber.rs:365-367).  The new fiber is named after the mapping of its
\* stack.
Fiber_new(t) ==
    /\ held[t] # {}
    /\ LET n == (CHOOSE s \in held[t] : TRUE).id IN
        /\ current_stack_segment' = current_stack_segment @@ (n :> held[t])
        /\ handles' = handles \cup {n}
        /\ state' = state @@ (n :> "Suspended")
        /\ call' = call @@ (n :> NoCall)
        /\ ctx' = ctx @@ (n :> "entry")
        /\ ret' = ret @@ (n :> "none")
        /\ entered' = entered @@ (n :> 0)
        /\ resumer' = resumer @@ (n :> n)
        /\ seg' = seg @@ (n :> 1)
        /\ delivered' = delivered @@ (n :> 0)
        /\ receiver' = receiver @@ (n :> {})
    /\ held' = [held EXCEPT ![t] = {}]
    /\ asked' = [asked EXCEPT ![t] = 0]
    /\ discarded' = {}
    /\ dropped' = {}
    /\ UNCHANGED <<coroutine_stack, running_state, pc, left, ev, stacks>>

\* Drop for Stack (stack.rs:117-128): a stack that knows its pool goes back
\* to it through give_stack; one that does not is unmapped.
Stack_drop(s) ==
    IF s.pool = {} THEN stacks
    ELSE LET p == CHOOSE t \in s.pool : TRUE
         IN [stacks EXCEPT ![p] = give_stack(stacks[p], s)]

\* Fiber::spawn_opts on thread t unwinds before Fiber::new: its local
\* `stack` is dropped.
spawn_unwinds(t) ==
    /\ held[t] # {}
    /\ stacks' = Stack_drop(CHOOSE s \in held[t] : TRUE)
    /\ discarded' = IF stacks' = stacks
                     THEN {[stack |-> s, path |-> "drop"] : s \in held[t]}
                     ELSE {}
    /\ held' = [held EXCEPT ![t] = {}]
    /\ asked' = [asked EXCEPT ![t] = 0]
    /\ dropped' = {}
    /\ UNCHANGED <<handles, state, coroutine_stack, running_state, pc, call,
                   ctx, ret, ev, left, entered, resumer, seg, delivered,
                   receiver, current_stack_segment>>

\* The pool that Drop for Fiber on thread t gives the stack s to:
\* Environment::current().stack_pool of the thread that runs the drop, not
\* the pool recorded in the stack (fiber.rs:283-286).
drop_pool_of_origin(t, s) == IF s.pool = {} THEN t ELSE CHOOSE p \in s.pool : TRUE

drop_pool(t, s) == t

\* Drop of the Handle h on thread t: Drop for Fiber gives the stack to the
\* pool of the thread that drops (fiber.rs:279-289).
fiber_drop(t, h) ==
    /\ held[t] = {}
    /\ h \in handles \ {Root}
    /\ ~OnChain(h)
    /\ LET rest == handles \ {h} IN
        /\ stacks' = IF current_stack_segment[h] = {} THEN stacks
                      ELSE LET s == CHOOSE x \in current_stack_segment[h] : TRUE
                               p == drop_pool(t, s)
                           IN [stacks EXCEPT ![p] = give_stack(@, s)]
        /\ discarded' = IF stacks' = stacks
                         THEN {[stack |-> s, path |-> "give"] :
                                  s \in current_stack_segment[h]}
                         ELSE {}
        /\ dropped' = {[thread |-> t, id |-> s.id] :
                          s \in current_stack_segment[h]}
        /\ handles' = rest
        /\ current_stack_segment' = Restrict(current_stack_segment, rest)
        /\ state' = Restrict(state, rest)
        /\ call' = Restrict(call, rest)
        /\ ctx' = Restrict(ctx, rest)
        /\ ret' = Restrict(ret, rest)
        /\ entered' = Restrict(entered, rest)
        /\ resumer' = Restrict(resumer, rest)
        /\ seg' = Restrict(seg, rest)
        /\ delivered' = Restrict(delivered, rest)
        /\ receiver' = Restrict(receiver, rest)
    /\ UNCHANGED <<coroutine_stack, running_state, pc, left, held, ev, asked>>

NextPool ==
    \/ \E t \in Threads, size \in Sizes : spawn_opts(t, size)
    \/ \E t \in Threads : Fiber_new(t)
    \/ \E t \in Threads : spawn_unwinds(t)
    \/ \E t \in Threads, h \in handles : fiber_drop(t, h)

SpecPool == InitPool /\ [][NextPool]_vars

----------------------------------------------------------------------------
Terminal == {"Finished", "Panicked"}

Spawned == handles \ {Root}

\* C1: at every point where user code runs (the host or a fiber body), the
\* chain is non-empty, its bottom is the root fiber and its top is Running.
C1_ChainRootedTopRunning ==
    pc = "user" =>
        /\ Len(coroutine_stack) >= 1
        /\ coroutine_stack[1] = Root
        /\ state[current] = "Running"

\* C1 witness: a fiber body runs again after a child it resumed yielded back.
C1_Witness ==
    /\ pc = "user"
    /\ Len(coroutine_stack) = 2
    /\ ev.op = "resume" /\ ev.entered /\ ev.caller = current
    /\ current # Root

\* C2: only the top of the chain can be Running; every fiber below the top
\* is Normal; no fiber off the chain is Running.
C2_OneRunningRestNormal ==
    /\ \A f \in handles : state[f] = "Running" => f = current
    /\ \A f, g \in handles :
          state[f] = "Running" /\ state[g] = "Running" => f = g
    /\ \A i \in 1..(Len(coroutine_stack) - 1) :
          state[coroutine_stack[i]] = "Normal"
    /\ \A f \in handles : ~OnChain(f) => state[f] # "Running"

\* C2 witness: a fiber runs at depth three, the root and its parent waiting.
C2_Witness ==
    /\ pc = "user"
    /\ Len(coroutine_stack) = 3
    /\ state[current] = "Running"
    /\ state[Root] = "Normal"

\* C3: the payload of a fiber whose body panicked is returned by exactly one
\* resume call, the one that had entered the fiber; once user code runs
\* again it has been delivered, the fiber is never entered again, and every
\* later resume on it is rejected with the resume-after-panic panic.
C3_PanicDeliveredOnce ==
    /\ \A f \in handles : delivered[f] <= 1
    /\ ev.res = "Err" =>
          /\ ev.entered
          /\ ev.payload = {ev.target}
          /\ ret[ev.target] = "Panicked"
    /\ \A f \in Spawned :
          /\ (ret[f] = "Panicked" /\ ~OnChain(f) /\ pc # "after_swap")
                => (delivered[f] = 1 /\ f \notin running_state)
          /\ delivered[f] = 1 => (~OnChain(f) /\ state[f] = "Panicked")
    /\ (pc = "user" /\ ev.op = "resume" /\ ~ev.entered
           /\ ret[ev.target] = "Panicked")
          => ev.res = "PanicResumePanicked"

\* C3 witness: a resume on a fiber whose payload was already delivered has
\* just been rejected.
C3_Witness ==
    /\ pc = "user"
    /\ ev.op = "resume" /\ ev.res = "PanicResumePanicked"
    /\ ret[ev.target] = "Panicked"
    /\ delivered[ev.target] = 1

\* A step in which user code calls resume on h: either the call returns (or
\* panics) at once, or it switches into h.
ResumeCalledOn(h) ==
    /\ pc = "user"
    /\ \/ /\ ev' # ev
          /\ ev'.op = "resume" /\ ~ev'.entered
          /\ ev'.caller = current /\ ev'.target = h
       \/ /\ call[current] = NoCall
          /\ call'[current] = [op |-> "resume", target |-> h]

ResumeIsNoOp ==
    /\ state' = state
    /\ coroutine_stack' = coroutine_stack
    /\ running_state' = running_state
    /\ pc' = pc
    /\ ev'.op = "resume" /\ ~ev'.entered

\* C4 as stated: resume on a Finished or Panicked fiber changes no fiber
\* state, does not touch the chain and returns Ok.
C4_TerminalResumeReturnsOk ==
    [][\A h \in handles :
          (state[h] \in Terminal /\ ResumeCalledOn(h))
              => (ResumeIsNoOp /\ ev'.res = "Ok")]_vars

\* C4 amended: resume on a Finished or Panicked fiber changes no fiber state
\* and does not touch the chain; on a Finished fiber it returns Ok, on a
\* Panicked fiber it does not return Ok but panics in the caller.
C4_TerminalResumeNoOp ==
    [][\A h \in handles :
          (state[h] \in Terminal /\ ResumeCalledOn(h))
              => /\ ResumeIsNoOp
                 /\ state[h] = "Finished" => ev'.res = "Ok"
                 /\ state[h] = "Panicked" => ev'.res = "PanicResumePanicked"]_vars

\* C4 witness: a fiber body has called resume on a Panicked fiber and the
\* call panicked.
C4_Witness ==
    /\ pc = "user"
    /\ current # Root
    /\ ev.op = "resume" /\ ~ev.entered /\ ev.caller = current
    /\ state[ev.target] = "Panicked"
    /\ ev.res = "PanicResumePanicked"

\* C5: a resume call (made directly or by join) that entered a fiber returns
\* Err exactly when the body of that fiber panicked, and then with that
\* fiber's own payload; when the fiber yielded or finished it returns Ok
\* with no payload, whatever panicked earlier on the thread.
C5_ResultMatchesExit ==
    (ev.op \in {"resume", "join"} /\ ev.entered) =>
        /\ ev.res \in {"Ok", "Err"}
        /\ ev.res = "Err" <=> ret[ev.target] = "Panicked"
        /\ ev.res = "Err" => (ev.payload = {ev.target} /\ ev.arg = "Panicked")
        /\ ev.res = "Ok" => ev.payload = {}

\* C5 witness: a resume returns Ok from a fiber that yielded with sched
\* after another fiber's panic was delivered on the thread.
C5_Witness ==
    /\ ev.op = "resume" /\ ev.entered /\ ev.res = "Ok"
    /\ ev.arg = "Suspended"
    /\ \E f \in Spawned : f # ev.target /\ delivered[f] = 1

\* C6: Finished and Panicked are terminal: no step changes the state of a
\* fiber that is Finished or Panicked, or has it on the chain afterwards.
C6_TerminalIsFinal ==
    [][\A f \in handles :
          state[f] \in Terminal =>
              /\ state'[f] = state[f]
              /\ \A i \in 1..Len(coroutine_stack') : coroutine_stack'[i] # f]_vars

\* C6 witness: join returned at once on a fiber whose body had returned,
\* while another fiber is Panicked.
C6_Witness ==
    /\ ev.op = "join" /\ ~ev.entered /\ ev.res = "Ok"
    /\ state[ev.target] = "Finished"
    /\ ret[ev.target] = "Finished"
    /\ \E f \in Spawned : state[f] = "Panicked"

\* C7: after any sequence of operations, yield_now with any state other
\* than Running included, every fiber that is not on the chain is
\* Suspended, Blocked, Finished or Panicked.
C7_OffChainNeverNormal ==
    pc = "user" =>
        \A f \in handles :
            ~OnChain(f) =>
                state[f] \in {"Suspended", "Blocked", "Finished", "Panicked"}

\* C8: a fiber resumes where it suspended.  Its i-th resume runs its i-th
\* segment only: while it is on the chain the number of resumes that entered
\* it equals the segment its body is in; while it waits to be resumed it has
\* been entered once per completed segment; every effect of segment i
\* happens during resume i; after a resume that a sched() ended it is
\* Suspended, and once its body has returned, in resume k+1 of k+1 segments,
\* it is Finished.
C8_ResumesWhereSuspended ==
    /\ \A f \in Spawned :
          /\ OnChain(f) => entered[f] = seg[f]
          /\ state[f] \in {"Suspended", "Blocked"} => entered[f] = seg[f] - 1
          /\ (ret[f] = "Finished" /\ ~OnChain(f))
                => (state[f] = "Finished" /\ entered[f] = seg[f])
    /\ ev.op = "send" => ev.seg = ev.during
    /\ (ev.op \in {"resume", "join"} /\ ev.entered /\ ev.arg = "Suspended")
          => /\ state[ev.target] = "Suspended"
             /\ ret[ev.target] = "none"
             /\ entered[ev.target] = seg[ev.target] - 1

\* C8 witness: the body of a fiber performs an effect of its second
\* segment, during the second resume that entered it.
C8_Witness ==
    /\ pc = "user"
    /\ ev.op = "send" /\ ev.seg = 2 /\ ev.during = 2
    /\ state[ev.caller] = "Running"

\* C9: when a fiber yields (yield_now, sched, block, or the final yield of
\* coroutine_initialize) it is popped and control is in the pending resume
\* of the fiber whose resume call had entered it, on that very handle; that
\* resume is the next thing to return, to the fiber now on top.
C9_YieldReturnsToResumer ==
    /\ pc = "after_swap" =>
          /\ ~OnChain(left.fiber)
          /\ left.by = current
          /\ call[current].op \in {"resume", "join"}
          /\ call[current].target = left.fiber
          /\ state[left.fiber] = left.arg
    /\ pc # "after_swap" =>
          /\ left = NoLeft
          /\ ev.entered => (ev.caller = current /\ ~OnChain(ev.target))
    /\ \A i \in 2..Len(coroutine_stack) :
          resumer[coroutine_stack[i]] = coroutine_stack[i - 1]

\* C9 witness: a fiber at depth three has yielded with sched; control is in
\* the resume of its parent fiber, not of the root.
C9_Witness ==
    /\ pc = "after_swap"
    /\ Len(coroutine_stack) = 2
    /\ left.arg = "Suspended"
    /\ left.by = current /\ current # Root

\* C10: every join(h) that returns with h Panicked, its body having
\* panicked, returns Err and not Ok.
C10_JoinOfPanickedIsErr ==
    (/\ ev.op = "join"
     /\ ev.res \in {"Ok", "Err"}
     /\ state[ev.target] = "Panicked"
     /\ ret[ev.target] = "Panicked")
        => ev.res = "Err"

\* C11: a child's panic is isolated.  When a fiber (the outer) resumed or
\* joined another (the inner) and got the inner's payload: the inner is
\* Panicked, the payload went to the outer only and is out of the slot, the
\* outer is Running in its body right after the call, and once the outer's
\* body has returned the outer is Finished and the resume or join on it
\* returns Ok with no payload.
C11_ChildPanicIsolated ==
    \A i, o \in Spawned :
        o \in receiver[i] =>
            /\ state[i] = "Panicked" /\ ret[i] = "Panicked"
            /\ receiver[i] = {o}
            /\ i \notin running_state
            /\ (pc = "user" /\ ev.res = "Err" /\ ev.target = i)
                  => /\ ev.caller = o /\ current = o
                     /\ state[o] = "Running"
                     /\ ret[o] = "none" /\ ctx[o] = "body"
            /\ (ret[o] = "Finished" /\ ~OnChain(o) /\ pc # "after_swap")
                  => state[o] = "Finished"
            /\ (ev.op \in {"resume", "join"} /\ ev.target = o
                   /\ ret[o] = "Finished" /\ ~OnChain(o))
                  => (ev.res = "Ok" /\ ev.payload = {})

\* C11 witness: the host's join on the outer fiber returned Ok; the outer
\* had got the payload of the inner fiber, which is Panicked, and finished.
C11_Witness ==
    /\ pc = "user" /\ current = Root
    /\ ev.op = "join" /\ ev.res = "Ok" /\ ev.caller = Root
    /\ state[ev.target] = "Finished" /\ ret[ev.target] = "Finished"
    /\ \E i \in Spawned :
          receiver[i] = {ev.target} /\ state[i] = "Panicked"

\* C12: resume on a Finished fiber is idempotent: every such call returns
\* Ok at once and changes nothing (the fiber stays Finished, the chain,
\* the slot and every other fiber are as before), so the next call finds
\* the same situation.
C12_FinishedResumeIdempotent ==
    [][\A h \in handles :
          (state[h] = "Finished" /\ ResumeCalledOn(h))
              => /\ NoSwitch
                 /\ ev'.op = "resume" /\ ~ev'.entered /\ ev'.res = "Ok"
                 /\ ev'.payload = {}
                 /\ state'[h] = "Finished"]_vars

\* C12 witness: the host has resumed a fiber whose body had returned, after
\* the resume that finished it, and got Ok.
C12_Witness ==
    /\ pc = "user" /\ current = Root
    /\ ev.op = "resume" /\ ~ev.entered /\ ev.res = "Ok" /\ ev.caller = Root
    /\ ev.target # Root
    /\ state[ev.target] = "Finished" /\ ret[ev.target] = "Finished"
    /\ entered[ev.target] >= 1

\* C13: a resume on the Running fiber, which is the caller itself, returns
\* Ok at once without changing the chain, any state or the slot; the caller
\* is still in its body and can go on to finish.
C13_SelfResumeIsNoOp ==
    [][\A h \in handles :
          (state[h] = "Running" /\ ResumeCalledOn(h))
              => /\ h = current
                 /\ NoSwitch
                 /\ ev'.op = "resume" /\ ~ev'.entered /\ ev'.res = "Ok"
                 /\ ev'.caller = h /\ ev'.target = h
                 /\ state'[h] = "Running" /\ ctx'[h] = "body"]_vars

\* C13 witness: a spawned fiber resumed itself, got Ok, and then its body
\* returned: it has just left the chain as Finished.
C13_Witness ==
    /\ pc = "after_swap"
    /\ ev.op = "resume" /\ ~ev.entered /\ ev.res = "Ok"
    /\ ev.caller = ev.target /\ ev.target # Root
    /\ left.fiber = ev.target /\ left.arg = "Finished"
    /\ state[ev.target] = "Finished" /\ ret[ev.target] = "Finished"

\* A step in which the host calls yield_now, sched or block with a state
\* other than Running while only the root is on the chain.
RootYields ==
    /\ pc = "user"
    /\ coroutine_stack = <<Root>>
    /\ \/ ev' # ev /\ ev'.op = "yield_now" /\ ev'.res # "PanicAssert"
       \/ left' # left
       \/ \E f \in handles : seg'[f] # seg[f]

\* C14: yielding from the root is a no-op: the call returns at once, the
\* chain still holds the root alone, the root is still Running and no other
\* fiber, the slot or any context has changed.
C14_RootYieldIsNoOp ==
    [][RootYields =>
          /\ NoSwitch
          /\ ev'.op = "yield_now" /\ ev'.res = "Ok" /\ ev'.caller = Root
          /\ coroutine_stack' = <<Root>>
          /\ state'[Root] = "Running"]_vars

\* C14 witness: the host's yield returned while fibers exist that are
\* Suspended and Blocked, none of them on the chain.
C14_Witness ==
    /\ pc = "user" /\ coroutine_stack = <<Root>>
    /\ ev.op = "yield_now" /\ ev.res = "Ok" /\ ev.caller = Root
    /\ state[Root] = "Running"
    /\ \E f, g \in Spawned : state[f] = "Suspended" /\ state[g] = "Blocked"

\* A step in which the body of f advances: it performs an effect, a call
\* it made returns or panics, it yields, or it ends.
Advances(f) ==
    \/ ev' # ev /\ ev'.op # "none" /\ ev'.caller = f
    \/ seg'[f] # seg[f]
    \/ ret'[f] # ret[f]

\* The fiber below the top of the chain is Normal, inside a resume or join
\* call on the handle of the top.
ResumeInProgress(f) ==
    /\ Len(coroutine_stack) >= 2
    /\ current = f
    /\ LET r == coroutine_stack[Len(coroutine_stack) - 1] IN
          /\ state[r] = "Normal"
          /\ call[r].op \in {"resume", "join"}
          /\ call[r].target = f

\* C15: the core schedules nothing.  The body of a spawned fiber advances
\* only while a resume call (direct, or made by join) on its handle is in
\* progress, with the caller waiting in it; so an effect of an inner fiber
\* happens after its parent called join on it and before that join returns.
C15_RunsOnlyWhileResumed ==
    [][\A f \in Spawned : Advances(f) => ResumeInProgress(f)]_vars

\* C15 witness: the nested test (tests.rs:55-69): the host joined the outer
\* fiber, the outer joined the inner, and the inner performs an effect.
C15_Witness ==
    /\ pc = "user" /\ Len(coroutine_stack) = 3
    /\ ev.op = "send" /\ ev.caller = current
    /\ call[Root].op = "join" /\ call[Root].target = coroutine_stack[2]
    /\ call[coroutine_stack[2]] = [op |-> "join", target |-> current]

\* A step in which user code calls Fiber::spawn: a handle is added.
SpawnCalled(n) == n \notin handles /\ n \in handles'

\* C18: spawn returns a handle to a Suspended fiber that owns a stack; the
\* body has not run (the context is at the entry of coroutine_initialize,
\* no resume has entered it), nothing was pushed on the chain and no
\* existing fiber changed state, the caller included.  The body starts
\* only in a step that is a resume or join call on the handle.
C18_SpawnOnlyCreates ==
    [][/\ \A n \in handles' :
             SpawnCalled(n) =>
                /\ state'[n] = "Suspended"
                /\ \E s \in current_stack_segment'[n] :
                      /\ s.min_size >= min_stack
                      /\ \A f \in handles : s \notin current_stack_segment[f]
                /\ ctx'[n] = "entry" /\ entered'[n] = 0 /\ ret'[n] = "none"
                /\ coroutine_stack' = coroutine_stack
                /\ \A f \in handles : state'[f] = state[f]
                /\ running_state' = running_state /\ pc' = pc
                /\ ev'.op = "spawn" /\ ev'.target = n /\ ev'.caller = current
       /\ \A f \in Spawned :
             (ctx[f] = "entry" /\ ctx'[f] # "entry") =>
                /\ state[f] = "Suspended" /\ entered[f] = 0
                /\ call'[current].op \in {"resume", "join"}
                /\ call'[current].target = f
                /\ current' = f /\ entered'[f] = 1]_vars

\* C18 witness: a fiber body has spawned a fiber: the new fiber is
\* Suspended with a stack and not started, the spawning fiber is still
\* Running on top of the chain.
C18_Witness ==
    /\ pc = "user" /\ current # Root
    /\ ev.op = "spawn" /\ ev.caller = current /\ ev.target # current
    /\ state[ev.target] = "Suspended" /\ ~OnChain(ev.target)
    /\ ctx[ev.target] = "entry" /\ entered[ev.target] = 0
    /\ current_stack_segment[ev.target] # {}
    /\ state[current] = "Running"

\* C19: resume on a Normal fiber (one waiting for its child, such as the
\* root seen from inside a fiber) is rejected as a protocol violation; at
\* the rejection the chain, every state, the slot and every context are
\* unchanged, and the target has not been pushed again.
C19_NormalResumeRejected ==
    [][\A h \in handles :
          (state[h] = "Normal" /\ ResumeCalledOn(h))
              => /\ NoSwitch
                 /\ ev'.op = "resume" /\ ~ev'.entered
                 /\ ev'.res = "PanicWaitingChild"
                 /\ ev'.caller = current /\ ev'.target = h
                 /\ state'[h] = "Normal" /\ state'[current] = "Running"
                 /\ Cardinality({i \in 1..Len(coroutine_stack') :
                                    coroutine_stack'[i] = h}) <= 1]_vars

\* C19 witness: a fiber body resumed the root, which is on the chain
\* waiting for it, and the call was rejected.
C19_Witness ==
    /\ pc = "user" /\ current # Root
    /\ ev.op = "resume" /\ ~ev.entered /\ ev.res = "PanicWaitingChild"
    /\ ev.caller = current /\ ev.target = Root
    /\ state[Root] = "Normal" /\ coroutine_stack[1] = Root
    /\ Len(coroutine_stack) = 2

\* A step in which the stack s leaves the hands of a spawn_opts or a fiber
\* for a pool: the drop of a Stack, or the drop of a Handle.
Given(s) == s \in taken /\ \A x \in taken' : x.id # s.id

\* The pool of thread p gets s pushed, with its pool field cleared.
Pushed(p, s) ==
    /\ Len(stacks[p]) < PoolCap
    /\ stacks' = [stacks EXCEPT ![p] = Append(@, [s EXCEPT !.pool = {}])]

\* C16: no pool ever caches more than 256 stacks, whichever path a stack
\* comes back by: the give_stack of a dropped fiber, or the drop of a
\* Stack in the hands of spawn_opts.  A stack given to a pool of 256 is
\* discarded (its mapping is gone) and every pool is as before; one given
\* to a smaller pool is pushed.
C16_PoolNeverExceedsCap ==
    [][/\ \A t \in Threads : Len(stacks'[t]) <= PoolCap
       /\ \A s \in taken :
             Given(s) =>
                \/ \E p \in Threads : Pushed(p, s)
                \/ /\ stacks' = stacks
                   /\ \E p \in Threads : Len(stacks[p]) = PoolCap
                   /\ s.id \notin mapped'
       /\ \A t \in Threads :
             (held[t] # {} /\ held'[t] = {} /\ \E s \in held[t] : Given(s))
                => \A s \in held[t] :
                      \/ Pushed(t, s)
                      \/ stacks' = stacks /\ Len(stacks[t]) = PoolCap]_vars

\* C16 witness: a Stack dropped in spawn_opts came back, by its Drop, to a
\* pool that holds 256 stacks, and was discarded.
C16_Witness ==
    /\ Len(stacks[Main]) = PoolCap
    /\ \E d \in discarded :
          /\ d.path = "drop"
          /\ d.stack.pool = {Main}
          /\ d.stack.id \notin mapped

\* C17: every stack is in at most one place: cached once in one pool, or in
\* the hands of one spawn_opts, or inside one fiber.  A cached stack is in
\* no hand and no fiber, and no stack is in two hands.
C17_StackInOnePlace ==
    /\ \A t \in Threads : Cardinality(cached_ids(t)) = Len(stacks[t])
    /\ \A t, u \in Threads : t # u => cached_ids(t) \cap cached_ids(u) = {}
    /\ \A s \in taken : \A t \in Threads : s.id \notin cached_ids(t)
    /\ \A t, u \in Threads :
          t # u => \A s \in held[t], x \in held[u] : s.id # x.id
    /\ \A s \in in_hand, x \in in_fibers : s.id # x.id
    /\ \A f, g \in handles :
          f # g => \A s \in current_stack_segment[f],
                      x \in current_stack_segment[g] : s.id # x.id
    /\ \A f \in handles : Cardinality(current_stack_segment[f]) <= 1
    /\ \A t \in Threads : Cardinality(held[t]) <= 1

\* C17 witness: a fiber spawned on one thread holds a stack while another
\* thread is inside spawn_opts with a stack taken from its own pool, and
\* the first thread's pool caches stacks.
C17_Witness ==
    \E t, u \in Threads :
        /\ t # u
        /\ \E s \in in_fibers : s.pool = {t}
        /\ \E s \in held[u] : s.pool = {u}
        /\ Len(stacks[t]) >= 1

\* C20: take_stack(min_size) on the pool of a thread returns a stack whose
\* min_size is at least the size asked for.  When a cached stack qualifies,
\* one qualifying stack leaves the pool and is the one returned, all the
\* others stay; when none qualifies the pool is unchanged and the stack is
\* a fresh mapping of exactly the size asked for.  No other pool changes.
C20_TakeStackContract ==
    [][\A t \in Threads :
          (held[t] = {} /\ held'[t] # {}) =>
             \A r \in held'[t] :
                LET v == stacks[t]
                    w == stacks'[t]
                    m == asked'[t]
                    q == {i \in 1..Len(v) : v[i].min_size >= m}
                IN /\ r.min_size >= m
                   /\ r.pool = {t}
                   /\ \A u \in Threads \ {t} : stacks'[u] = stacks[u]
                   /\ q # {} =>
                        /\ \E i \in q : v[i].id = r.id
                                         /\ v[i].min_size = r.min_size
                        /\ Len(w) = Len(v) - 1
                        /\ {w[j] : j \in 1..Len(w)}
                              = {v[j] : j \in 1..Len(v)} \ {[r EXCEPT !.pool = {}]}
                   /\ q = {} =>
                        /\ w = v
                        /\ r.min_size = m
                        /\ r.id \notin mapped]_vars

\* C20 witness: a take_stack got a cached stack larger than the size asked
\* for, the first that qualified, and left other stacks in the pool, a
\* qualifying one among them.
C20_Witness ==
    \E t \in Threads :
        /\ \E r \in held[t] : r.min_size > asked[t]
        /\ \E i \in 1..Len(stacks[t]) : stacks[t][i].min_size >= asked[t]

\* The step is the drop of a Handle.
FiberDropped == dropped' # {} /\ handles' # handles

\* The stack of the fiber dropped in this step is pushed on the pool of the
\* thread that dropped it when that pool held fewer than 256 stacks.
CachedByDropper ==
    FiberDropped =>
       \A d \in dropped' :
          \A h \in handles \ handles' :
             \A s \in current_stack_segment[h] :
                /\ s.id = d.id
                /\ Len(stacks[d.thread]) < PoolCap =>
                      stacks' = [stacks EXCEPT ![d.thread] =
                                   Append(@, [s EXCEPT !.pool = {}])]

\* The stack that the last drop gave to the pool of thread t, as cached
\* there: {} when the drop was not on t or the stack is not in that pool.
DroppedIn(t) ==
    {stacks[t][i] : i \in {j \in 1..Len(stacks[t]) :
                              \E d \in dropped : d.thread = t
                                                 /\ d.id = stacks[t][j].id}}

\* The step is the take_stack of a spawn_opts on thread t that asks for no
\* more than the size of s.
SpawnAsking(t, s) ==
    /\ held[t] = {} /\ held'[t] # {}
    /\ asked'[t] <= s.min_size

\* C21 as stated: the stack of a dropped fiber is cached by the dropping
\* thread's pool when it held fewer than 256 stacks, and the following
\* spawn on that thread that asks for no more than its size gets that very
\* stack.
C21_DroppedStackReused ==
    [][/\ CachedByDropper
       /\ \A t \in Threads : \A s \in DroppedIn(t) :
             SpawnAsking(t, s) => \A r \in held'[t] : r.id = s.id]_vars

\* C21 amended: the stack of a dropped fiber is pushed last on the dropping
\* thread's pool when it held fewer than 256 stacks; the following spawn on
\* that thread that asks for no more than its size maps no fresh stack: it
\* gets the first cached stack that is large enough, which is the dropped
\* one when no stack cached before it qualifies.
C21_DroppedStackCached ==
    [][/\ CachedByDropper
       /\ \A t \in Threads : \A s \in DroppedIn(t) :
             SpawnAsking(t, s) =>
                LET v == stacks[t]
                    m == asked'[t]
                IN \A r \in held'[t] :
                      /\ r.id \in cached_ids(t)
                      /\ mapped' = mapped
                      /\ v[Len(v)] = s
                      /\ (\A i \in 1..(Len(v) - 1) : v[i].min_size < m)
                            => r.id = s.id]_vars

\* C21 witness: a thread other than the main one has just dropped the last
\* fiber; its pool, which cached a stack already, now caches the fiber's
\* stack last, a stack larger than the smallest size a spawn may ask for.
C21_Witness ==
    \E d \in dropped :
        LET v == stacks[d.thread] IN
        /\ d.thread # Main
        /\ Len(v) >= 2
        /\ v[Len(v)].id = d.id
        /\ v[Len(v)].min_size > min_stack + 1
        /\ handles = {Root}

\* The fiber c is in the loop of join(h), and h is Suspended or Blocked.
JoinStarted(c, h) ==
    /\ h \in handles /\ c \in handles
    /\ pc = "join_loop"
    /\ current = c
    /\ call[c].target = h
    /\ state[h] \in {"Suspended", "Blocked"}

\* join(h) has returned to c, and h is terminal.
JoinReturned(c, h) ==
    /\ h \in handles
    /\ pc = "user"
    /\ current = c
    /\ ev.op = "join" /\ ev.caller = c /\ ev.target = h
    /\ ev.res \in {"Ok", "Err"}
    /\ state[h] \in Terminal

\* Some body does not end: it is in a join on a Running fiber.
JoinOnRunning ==
    pc = "join_loop" /\ state[call[current].target] = "Running"

\* C22: join(h) on a Suspended or Blocked h whose body ends after finitely
\* many yields eventually returns to its caller, with h Finished or
\* Panicked (unless a body entered on the way never ends, being itself in
\* a join on a Running fiber).
C22_JoinReturns ==
    \A c \in 0..MaxFibers, h \in 1..MaxFibers :
        JoinStarted(c, h) ~> (JoinReturned(c, h) \/ JoinOnRunning)

\* The fiber f is inside a resume call (its own, or the one of a join) that
\* has switched to its target and has not got the control back.
InResume(f) ==
    /\ call[f].op \in {"resume", "join"}
    /\ ~(f = current /\ pc \in {"after_swap", "join_loop"})

\* The chain's elements are pairwise distinct, each is Running or Normal,
\* and there is one more of them than resume calls in progress.
ChainDistinct ==
    /\ \A i, j \in 1..Len(coroutine_stack) :
          i # j => coroutine_stack[i] # coroutine_stack[j]
    /\ \A i \in 1..Len(coroutine_stack) :
          state[coroutine_stack[i]] \in {"Running", "Normal"}
    /\ Len(coroutine_stack)
          = Cardinality({f \in handles : InResume(f)}) + 1

\* C23: no fiber is twice on the chain.  A step that makes the chain longer
\* pushes one handle, whose state was Suspended or Blocked; in every state
\* the chain's elements are pairwise distinct and Running or Normal, and
\* the chain is one longer than the number of resume calls in progress.
C23_ChainElementsDistinct ==
    /\ ChainDistinct
    /\ [][/\ ChainDistinct'
          /\ Len(coroutine_stack') > Len(coroutine_stack) =>
                \E h \in handles :
                   /\ state[h] \in {"Suspended", "Blocked"}
                   /\ coroutine_stack' = Append(coroutine_stack, h)]_vars

\* C23 witness: at nesting depth two (the root inside resume, its child
\* inside the resume of a join), the running fiber has resumed itself and
\* nothing was pushed.
C23_Witness ==
    /\ pc = "user"
    /\ Len(coroutine_stack) = 3
    /\ call[Root].op = "resume"
    /\ call[coroutine_stack[2]].op = "join"
    /\ ev.op = "resume" /\ ev.res = "Ok" /\ ~ev.entered
    /\ ev.caller = current /\ ev.target = current

\* C24: join on a handle that is Running never returns.  While the thread
\* is in the loop of a join whose handle is Running, every step leaves it
\* there: an iteration's resume returns Ok, nothing was entered, and no
\* state, chain or slot changes.
C24_JoinOnRunningSpins ==
    [][JoinOnRunning =>
          /\ pc' = "join_loop"
          /\ UNCHANGED <<handles, state, coroutine_stack, running_state, call,
                         ctx, ret, left, entered, resumer, seg, delivered,
                         receiver, current_stack_segment, pvars>>
          /\ ev'.op = "resume" /\ ev'.res = "Ok" /\ ~ev'.entered
          /\ ev'.caller = current /\ ev'.target = call[current].target]_vars

\* C24 witness: a fiber is in the loop of a join on its own handle, and an
\* iteration has run: its resume returned Ok.
C24_Witness ==
    /\ pc = "join_loop"
    /\ current # Root
    /\ call[current] = [op |-> "join", target |-> current]
    /\ state[current] = "Running"
    /\ ev.op = "resume" /\ ev.res = "Ok" /\ ~ev.entered
    /\ ev.caller = current /\ ev.target = current

\* C25: a fiber is Finished only if its entry function returned, and
\* Panicked only if its entry function unwound and its payload was put in
\* the in-flight panic slot (where it still is, or from where a resume has
\* taken it), whatever the bodies call, the public yield_now included.
C25_TerminalOnlyByExit ==
    \A f \in Spawned :
        /\ state[f] = "Finished" => (ctx[f] = "loop" /\ ret[f] = "Finished")
        /\ state[f] = "Panicked" =>
              /\ ctx[f] = "loop" /\ ret[f] = "Panicked"
              /\ f \in running_state \/ delivered[f] >= 1
====
